---- MODULE Spec2Model ----
(***************************************************************************)
(* Model of the credential-generation engine of src/src/App.jsx:           *)
(*   getRandomCryptoInt  (lines 84-103)   rejection-sampled random integer *)
(*   shuffleArray        (lines 137-145)  Fisher-Yates shuffle             *)
(*   generatePassword    (lines 248-281)  character-class passwords        *)
(*                                                                         *)
(* Strings are sequences of one-character strings, so that indexing,       *)
(* join('') and length are computed as the code computes them.             *)
(*                                                                         *)
(*   generateWordChain   (lines 454-502)  word-chain passwords             *)
(*   processCustomWordList (391-430)      custom word list loading         *)
(*                                                                         *)
(* The specifications share the variables:                                 *)
(*   SpecRng      one getRandomCryptoInt call after another, each loop     *)
(*                iteration consuming one word of the secure byte source;  *)
(*   SpecShuffle  shuffleArray applied to bounded input arrays;            *)
(*   Spec         the RandomPasswordGenerator component: settings as       *)
(*                restored at construction, then one generatePassword;     *)
(*   SpecWords    the WordChainPasswordGenerator component: one            *)
(*                generateWordChain;                                       *)
(*   SpecCopy     SpecWords with handleCopy of App;                        *)
(*   SpecLoad     changes of the custom word list input and the runs of    *)
(*                processCustomWordList they start.                        *)
(***************************************************************************)
EXTENDS Integers, Sequences, FiniteSets, TLC

\* ----------------------------------------------------------------- bounds

\* Width of the random word. The code uses a Uint32Array (32 bits); the
\* model keeps the arithmetic and narrows the word.
WordBits == 4

\* Largest array handed to shuffleArray in SpecShuffle.
MaxArrayLen == 3

\* Number of distinct element values of the arrays of SpecShuffle.
NumElems == 3

\* Largest passwordLength (the slider of the code goes from 1 to 64).
MaxLength == 3

\* Number of characters kept of each alphabet of CHAR_SETS.
AlphaLen == 2

\* -------------------------------------------------------------- variables

VARIABLES
    \* getRandomCryptoInt (SpecRng)
    rngPc,          \* "idle" | "loop" | "returned"
    rngMax,         \* the argument max
    rngResult,      \* the local result: the word last read from randomBytes[0]
    rngReturn,      \* the value returned (-1 before any return)
    rngLogged,      \* console.error was called by this call
    rngRejected,    \* this call discarded at least one word
    \* shuffleArray (SpecShuffle)
    shPc,           \* "ready" | "done"
    array,          \* the argument
    shDraws,        \* the values j drawn, in the order of the loop
    newArray,       \* the array returned
    \* RandomPasswordGenerator (Spec)
    pwPc,           \* "ready" | "done"
    passwordLength,
    includeLowercase,
    includeUppercase,
    includeNumbers,
    includeSymbols,
    passwordChars,  \* the local passwordChars, before the shuffle
    pwDraws,        \* the arguments of the getRandomCryptoInt calls made, in order
    generatedPassword, \* what onGenerate received (state of App, line 648)
    \* WordChainPasswordGenerator (SpecWords)
    wcPc,           \* "ready" | "done"
    wordCount,
    useDefaultList,
    customWords,
    separatorType,
    randomCapitalization,
    includeNumbersBetweenWords,
    includeSymbolsBetweenWords,
    generatedParts, \* the local generatedParts of the last generateWordChain
    wcDraws,        \* the arguments of its getRandomCryptoInt calls, in order
    copyStatus,     \* state of App, line 649
    \* processCustomWordList (SpecLoad)
    customWordListInput,
    loadingWords,
    wordListError,
    inFlight        \* the runs of processCustomWordList awaiting their fetch

rngVars == <<rngPc, rngMax, rngResult, rngReturn, rngLogged, rngRejected>>
shVars == <<shPc, array, shDraws, newArray>>
pwVars == <<pwPc, passwordLength, includeLowercase, includeUppercase,
            includeNumbers, includeSymbols, passwordChars, pwDraws,
            generatedPassword>>
wcVars == <<wcPc, wordCount, useDefaultList, customWords, separatorType,
            randomCapitalization, includeNumbersBetweenWords,
            includeSymbolsBetweenWords, generatedParts, wcDraws, copyStatus>>
ldVars == <<customWordListInput, loadingWords, wordListError, inFlight>>
vars == <<rngVars, shVars, pwVars, wcVars, ldVars>>

\* ------------------------------------------------------- getRandomCryptoInt

\* 0xFFFFFFFF: the largest value of the random word.
MaxUint32 == 2^WordBits - 1

\* The values crypto.getRandomValues can put in randomBytes[0].
Words == 0..MaxUint32

ceilingNoRejection(max) == MaxUint32 + 1

ceilingSwapped(max) == (max \div MaxUint32) * max

\* Math.floor(0xFFFFFFFF / max) * max
ceiling(max) == (MaxUint32 \div max) * max

ModuloOffByOne(result, max) == result % (max + 1)

\* result % max
Modulo(result, max) == result % max

\* The loop condition: result >= ceiling
Rejected(result, max) == result >= ceiling(max)

\* The values a call getRandomCryptoInt(max) can return: 0 for max <= 0,
\* otherwise the residue of any word that leaves the while loop. (Empty when
\* no word leaves the loop: the call then never returns.)
getRandomCryptoInt(max) ==
    IF max <= 0 THEN {0}
    ELSE {Modulo(w, max) : w \in {x \in Words : ~Rejected(x, max)}}

\* The arguments tried in SpecRng: non-positive ones, every bound a word can
\* serve, and one beyond.
RngArgs == (-1)..(MaxUint32 + 1)

InitRng ==
    /\ rngPc = "idle"
    /\ rngMax = 1
    /\ rngResult = 0
    /\ rngReturn = -1
    /\ rngLogged = FALSE
    /\ rngRejected = FALSE

\* Entry of getRandomCryptoInt(n): the guard on max, or the first word.
RngCall ==
    /\ rngPc \in {"idle", "returned"}
    /\ \E n \in RngArgs :
        /\ rngMax' = n
        /\ IF n <= 0
           THEN /\ rngLogged' = TRUE
                /\ rngReturn' = 0
                /\ rngPc' = "returned"
                /\ UNCHANGED rngResult
           ELSE /\ rngLogged' = FALSE
                /\ rngReturn' = -1
                /\ rngPc' = "loop"
                /\ \E w \in Words : rngResult' = w
    /\ rngRejected' = FALSE
    /\ UNCHANGED <<shVars, pwVars, wcVars, ldVars>>

\* One iteration of the while loop: the word is discarded and a new one read.
RngReroll ==
    /\ rngPc = "loop"
    /\ Rejected(rngResult, rngMax)
    /\ \E w \in Words : rngResult' = w
    /\ rngRejected' = TRUE
    /\ UNCHANGED <<rngPc, rngMax, rngReturn, rngLogged, shVars, pwVars,
                   wcVars, ldVars>>

\* The loop exits and the function returns result % max.
RngReturn ==
    /\ rngPc = "loop"
    /\ ~Rejected(rngResult, rngMax)
    /\ rngReturn' = Modulo(rngResult, rngMax)
    /\ rngPc' = "returned"
    /\ UNCHANGED <<rngMax, rngResult, rngLogged, rngRejected, shVars, pwVars,
                   wcVars, ldVars>>

\* ------------------------------------------------- claims: getRandomCryptoInt

\* C1: for every positive bound max and whatever words the byte source
\* delivers, the value getRandomCryptoInt(max) returns is an integer r with
\* 0 <= r < max.
C1_ReturnInRange ==
    (rngPc = "returned" /\ rngMax > 0) =>
        /\ rngReturn \in Int
        /\ 0 <= rngReturn
        /\ rngReturn < rngMax

\* A call with bound 3 that discarded a word and then returned 2.
C1_Witness ==
    rngPc = "returned" /\ rngMax = 3 /\ rngRejected /\ rngReturn = 2

\* The words that leave the while loop of a call with bound max and make it
\* return r.
AcceptedWordsFor(max, r) ==
    {w \in Words : ~Rejected(w, max) /\ Modulo(w, max) = r}

\* C2: no modulo bias. For every bound max in [1, 2^W - 1], every result r in
\* [0, max) is returned for exactly the same number of accepted words.
C2_NoModuloBias ==
    (rngPc # "idle" /\ rngMax >= 1 /\ rngMax <= MaxUint32) =>
        \A r1, r2 \in 0..(rngMax - 1) :
            Cardinality(AcceptedWordsFor(rngMax, r1)) =
                Cardinality(AcceptedWordsFor(rngMax, r2))

\* A call whose bound does not divide 2^W, which discarded a word and
\* returned the largest result.
C2_Witness ==
    /\ rngPc = "returned"
    /\ rngMax = 7
    /\ rngRejected
    /\ rngReturn = 6
    /\ (MaxUint32 + 1) % rngMax # 0

\* The words a call with bound max discards.
RejectedWords(max) == {w \in Words : Rejected(w, max)}

\* C3 (as claimed): the rejection threshold is
\* floor(MAX_VALUE_PLUS_ONE / max) * max, and for every bound max with
\* 1 <= max <= 2^(W-1) strictly fewer than half of all W-bit words are rejected.
C3_ThresholdAndRejectionRate ==
    (rngPc # "idle" /\ rngMax >= 1 /\ rngMax <= 2^(WordBits - 1)) =>
        /\ ceiling(rngMax) = ((MaxUint32 + 1) \div rngMax) * rngMax
        /\ 2 * Cardinality(RejectedWords(rngMax)) < MaxUint32 + 1

\* C4 (as claimed): a call with max <= 0 ends in an InvalidArgument failure;
\* it returns no integer that the caller can use as a draw.
C4_InvalidArgumentOnNonPositive ==
    (rngPc = "returned" /\ rngMax <= 0) => rngReturn \notin Int


\* ------------------------------------------------------------- shuffleArray

\* The element values of the arrays tried in SpecShuffle.
Elems == 1..NumElems

\* The arrays tried in SpecShuffle: every array of at most MaxArrayLen elements.
Arrays == UNION {[1..n -> Elems] : n \in 0..MaxArrayLen}

SwapOverwrite(a, i, j) == [a EXCEPT ![i + 1] = a[j + 1]]

\* [newArray[i], newArray[j]] = [newArray[j], newArray[i]], i and j being
\* the 0-based indexes of the code.
Swap(a, i, j) == [a EXCEPT ![i + 1] = a[j + 1], ![j + 1] = a[i + 1]]

DrawBoundSattolo(i) == i

\* The argument of getRandomCryptoInt in the iteration with index i: i + 1.
DrawBound(i) == i + 1

\* The draws a shuffle of len elements can make: one value j per iteration,
\* i going from len - 1 down to 1, so that the t-th draw is made with
\* i = len - t.
ShuffleDrawSeqs(len) ==
    {d \in [1..(len - 1) -> 0..len] :
        \A t \in 1..(len - 1) : d[t] \in getRandomCryptoInt(DrawBound(len - t))}

RECURSIVE ShuffleLoop(_, _, _)
\* for (let i = ...; i > 0; i--) { j = draw; swap(i, j) }
ShuffleLoop(a, i, d) ==
    IF i > 0
    THEN ShuffleLoop(Swap(a, i, d[Len(a) - i]), i - 1, d)
    ELSE a

\* shuffleArray(arr) when the draws come out as d: the copy, the loop from
\* i = length - 1, and the array returned.
shuffleArray(arr, d) == ShuffleLoop(arr, Len(arr) - 1, d)

InitShuffleIdle ==
    /\ shPc = "ready"
    /\ array = <<>>
    /\ shDraws = <<>>
    /\ newArray = <<>>

InitShuffle ==
    /\ shPc = "ready"
    /\ array \in Arrays
    /\ shDraws = <<>>
    /\ newArray = <<>>

\* One call shuffleArray(array).
ShuffleCall ==
    /\ shPc = "ready"
    /\ \E d \in ShuffleDrawSeqs(Len(array)) :
        /\ shDraws' = d
        /\ newArray' = shuffleArray(array, d)
    /\ shPc' = "done"
    /\ UNCHANGED <<array, rngVars, pwVars, wcVars, ldVars>>

\* ------------------------------------------------------- claims: shuffleArray

\* The number of positions of s that hold e.
Occurrences(s, e) == Cardinality({i \in DOMAIN s : s[i] = e})

\* C5: for every input array and every sequence of draws, shuffleArray returns
\* an array of the same length holding exactly the same multiset of elements.
C5_ShuffleIsPermutation ==
    shPc = "done" =>
        /\ Len(newArray) = Len(array)
        /\ \A e \in Elems : Occurrences(newArray, e) = Occurrences(array, e)

\* A shuffle of an array with a repeated element that moved its elements.
C5_Witness ==
    shPc = "done" /\ array = <<1, 1, 2>> /\ newArray = <<2, 1, 1>>

RECURSIVE Factorial(_)
Factorial(n) == IF n <= 1 THEN 1 ELSE n * Factorial(n - 1)

\* The reorderings of the array a.
PermutationsOf(a) ==
    {[i \in DOMAIN a |-> a[f[i]]] :
        f \in {g \in [DOMAIN a -> DOMAIN a] :
                  \A x, y \in DOMAIN a : g[x] = g[y] => x = y}}

IsDistinct(a) == \A x, y \in DOMAIN a : a[x] = a[y] => x = y

\* C6: the shuffle is an unbiased Fisher-Yates shuffle. It makes one draw
\* j in [0, i] for each i from length - 1 down to 1, and for an input of k
\* distinct elements there are k! sequences of draw results, every one of the
\* k! permutations being produced by exactly one of them.
C6_ShuffleUnbiased ==
    (shPc = "done" /\ IsDistinct(array)) =>
        LET k == Len(array)
            seqs == ShuffleDrawSeqs(k)
        IN  /\ Len(shDraws) = (IF k > 0 THEN k - 1 ELSE 0)
            /\ \A t \in DOMAIN shDraws : shDraws[t] \in 0..(k - t)
            /\ Cardinality(seqs) = Factorial(k)
            /\ Cardinality(PermutationsOf(array)) = Factorial(k)
            /\ \A p \in PermutationsOf(array) :
                Cardinality({d \in seqs : shuffleArray(array, d) = p}) = 1

\* A shuffle of three distinct elements that returned a rotation of them.
C6_Witness ==
    /\ shPc = "done"
    /\ array = <<1, 2, 3>>
    /\ newArray = <<3, 1, 2>>
    /\ shDraws = <<1, 0>>

\* ---------------------------------------------------- RandomPasswordGenerator

\* CHAR_SETS.lowercase
CharSetLowercase ==
    <<"a", "b", "c", "d", "e", "f", "g", "h", "i", "j", "k", "l", "m", "n",
      "o", "p", "q", "r", "s", "t", "u", "v", "w", "x", "y", "z">>

\* CHAR_SETS.uppercase
CharSetUppercase ==
    <<"A", "B", "C", "D", "E", "F", "G", "H", "I", "J", "K", "L", "M", "N",
      "O", "P", "Q", "R", "S", "T", "U", "V", "W", "X", "Y", "Z">>

\* CHAR_SETS.numbers
CharSetNumbers ==
    <<"0", "1", "2", "3", "4", "5", "6", "7", "8", "9">>

\* CHAR_SETS.symbols
CharSetSymbols ==
    <<"!", "@", "#", "$", "%", "^", "&", "*", "(", ")", "_", "+", "-", "=",
      "[", "]", "{", "}", "|", ";", ":", "'", "\"", ",", ".", "<", ">",
      "?", "/">>

\* The alphabets of the model: the first AlphaLen characters of each
\* alphabet of CHAR_SETS.
CHAR_SETS ==
    [lowercase |-> SubSeq(CharSetLowercase, 1, AlphaLen),
     uppercase |-> SubSeq(CharSetUppercase, 1, AlphaLen),
     numbers |-> SubSeq(CharSetNumbers, 1, AlphaLen),
     symbols |-> SubSeq(CharSetSymbols, 1, AlphaLen)]

\* 'Error: Please select at least one character type.'
ErrorNoCharacterType ==
    <<"E", "r", "r", "o", "r", ":", " ", "P", "l", "e", "a", "s", "e", " ",
      "s", "e", "l", "e", "c", "t", " ", "a", "t", " ", "l", "e", "a", "s",
      "t", " ", "o", "n", "e", " ", "c", "h", "a", "r", "a", "c", "t", "e",
      "r", " ", "t", "y", "p", "e", ".">>

\* What indexing a string or an array past its end yields.
Undefined == "undefined"

\* s[idx], idx being the 0-based index of the code.
CharAt(s, idx) == IF idx + 1 \in DOMAIN s THEN s[idx + 1] ELSE Undefined

RECURSIVE Join(_)
\* parts.join(''): the concatenation of the strings of parts, an undefined
\* element counting as the empty string.
Join(parts) ==
    IF parts = <<>> THEN <<>>
    ELSE (IF Head(parts) = Undefined THEN <<>> ELSE Head(parts))
            \o Join(Tail(parts))

\* Each character of chars as a one-character string.
AsStrings(chars) ==
    [i \in DOMAIN chars |->
        IF chars[i] = Undefined THEN Undefined ELSE <<chars[i]>>]

\* The four conditional pushes that build activeCharSets.
activeCharSets ==
    (IF includeLowercase THEN <<CHAR_SETS.lowercase>> ELSE <<>>)
    \o (IF includeUppercase THEN <<CHAR_SETS.uppercase>> ELSE <<>>)
    \o (IF includeNumbers THEN <<CHAR_SETS.numbers>> ELSE <<>>)
    \o (IF includeSymbols THEN <<CHAR_SETS.symbols>> ELSE <<>>)

\* activeCharSets.join('')
allCharacters == Join(activeCharSets)

NoCharTypeSelectedNever(acs) == FALSE

\* activeCharSets.length === 0
NoCharTypeSelected(acs) == Len(acs) = 0

GuaranteedSourcePooled(charSet, all) == all

\* The string the forEach callback draws its character from: charSet.
GuaranteedSource(charSet, all) == charSet

FillStartZero(chars) == 0

\* The first index of the filling loop: passwordChars.length.
FillStart(chars) == Len(chars)

\* The number of iterations of  for (i = start; i < passwordLength; i++).
FillCount(start) ==
    IF passwordLength > start THEN passwordLength - start ELSE 0

\* The indexes the forEach over acs can draw: one per active character set.
GuaranteedDraws(acs) ==
    {g \in [1..Len(acs) -> 0..(Len(allCharacters) + 1)] :
        \A k \in 1..Len(acs) :
            g[k] \in getRandomCryptoInt(
                        Len(GuaranteedSource(acs[k], allCharacters)))}

\* The characters the forEach pushes when its draws come out as g.
GuaranteedChars(acs, g) ==
    [k \in 1..Len(acs) |->
        CharAt(GuaranteedSource(acs[k], allCharacters), g[k])]

\* The indexes the filling loop can draw in n iterations.
FillDraws(n) ==
    {f \in [1..n -> 0..(Len(allCharacters) + 1)] :
        \A k \in 1..n : f[k] \in getRandomCryptoInt(Len(allCharacters))}

\* The characters the filling loop pushes when its draws come out as f.
FillChars(f) == [k \in DOMAIN f |-> CharAt(allCharacters, f[k])]

\* The arguments of the getRandomCryptoInt calls of a generation that
\* reaches the shuffle with n characters: the forEach, the filling loop, the
\* shuffle.
DrawArguments(acs, nFill, n) ==
    [k \in 1..Len(acs) |-> Len(GuaranteedSource(acs[k], allCharacters))]
    \o [k \in 1..nFill |-> Len(allCharacters)]
    \o [t \in 1..(n - 1) |-> DrawBound(n - t)]

\* The settings as useState restores them from localStorage.
InitPassword ==
    /\ pwPc = "ready"
    /\ passwordLength \in 1..MaxLength
    /\ includeLowercase \in BOOLEAN
    /\ includeUppercase \in BOOLEAN
    /\ includeNumbers \in BOOLEAN
    /\ includeSymbols \in BOOLEAN
    /\ passwordChars = <<>>
    /\ pwDraws = <<>>
    /\ generatedPassword = <<>>

\* The settings of a first visit, for the specifications that do not
\* generate passwords.
InitPasswordDefault ==
    /\ pwPc = "ready"
    /\ passwordLength = 16
    /\ includeLowercase = TRUE
    /\ includeUppercase = TRUE
    /\ includeNumbers = TRUE
    /\ includeSymbols = TRUE
    /\ passwordChars = <<>>
    /\ pwDraws = <<>>
    /\ generatedPassword = <<>>

\* One click on "Generate Random Password": generatePassword, with the
\* string it hands to onGenerate stored by handleGeneratePassword. The
\* handler reads the five settings and nothing a previous call left behind.
generatePassword ==
    /\ pwPc = "ready"
    /\ IF NoCharTypeSelected(activeCharSets)
       THEN /\ generatedPassword' = ErrorNoCharacterType
            /\ passwordChars' = <<>>
            /\ pwDraws' = <<>>
       ELSE \E g \in GuaranteedDraws(activeCharSets) :
              LET guaranteed == GuaranteedChars(activeCharSets, g)
                  nFill == FillCount(FillStart(guaranteed))
              IN  \E f \in FillDraws(nFill) :
                    LET chars == guaranteed \o FillChars(f)
                    IN  \E d \in ShuffleDrawSeqs(Len(chars)) :
                          /\ passwordChars' = chars
                          /\ pwDraws' =
                                DrawArguments(activeCharSets, nFill, Len(chars))
                          /\ generatedPassword' =
                                Join(AsStrings(shuffleArray(chars, d)))
    /\ pwPc' = "done"
    /\ UNCHANGED <<passwordLength, includeLowercase, includeUppercase,
                   includeNumbers, includeSymbols, rngVars, shVars,
                   wcVars, ldVars>>

\* --------------------------------------------------- claims: generatePassword

\* The characters of the password that belong to the alphabet charSet.
PositionsIn(password, charSet) ==
    {i \in DOMAIN password : \E c \in DOMAIN charSet : password[i] = charSet[c]}

\* C7: for every policy with at least one selected class and
\* passwordLength >= the number of selected classes, whatever the draws
\* (those of the shuffle included), the generated password holds at least one
\* character of the alphabet of each selected class.
C7_EveryClassRepresented ==
    (/\ pwPc = "done"
     /\ Len(activeCharSets) > 0
     /\ passwordLength >= Len(activeCharSets)) =>
        \A k \in DOMAIN activeCharSets :
            PositionsIn(generatedPassword, activeCharSets[k]) # {}

\* A password of three characters for two classes, one of them filled in
\* from the pooled alphabet, the shuffle having moved the guaranteed ones.
C7_Witness ==
    /\ pwPc = "done"
    /\ includeLowercase /\ includeNumbers
    /\ ~includeUppercase /\ ~includeSymbols
    /\ passwordLength = 3
    /\ passwordChars = <<"a", "1", "b">>
    /\ generatedPassword = <<"1", "b", "a">>

\* C8: for every policy with at least one selected class and
\* passwordLength >= the number of selected classes, the generated password
\* has exactly passwordLength characters.
C8_LengthIsPasswordLength ==
    (/\ pwPc = "done"
     /\ Len(activeCharSets) > 0
     /\ passwordLength >= Len(activeCharSets)) =>
        Len(generatedPassword) = passwordLength

\* A password of three characters for one class: one guaranteed character
\* and two filled in.
C8_Witness ==
    /\ pwPc = "done"
    /\ Len(activeCharSets) = 1
    /\ passwordLength = 3
    /\ Len(pwDraws) = 5
    /\ Len(generatedPassword) = 3

\* C9 (as claimed): when passwordLength (>= 1) is smaller than the number of
\* selected classes, only the first passwordLength guaranteed characters are
\* kept, so the password has exactly passwordLength characters.
C9_TruncatedToPasswordLength ==
    (/\ pwPc = "done"
     /\ passwordLength >= 1
     /\ passwordLength < Len(activeCharSets)) =>
        Len(generatedPassword) = passwordLength

\* C10: when no character class is selected, generation yields the
\* no-class-selected failure whatever passwordLength is: onGenerate receives
\* the error message, no password character is produced and
\* getRandomCryptoInt is not called.
C10_NoClassSelected ==
    (pwPc = "done" /\ Len(activeCharSets) = 0) =>
        /\ generatedPassword = ErrorNoCharacterType
        /\ passwordChars = <<>>
        /\ pwDraws = <<>>

\* A generation with no class selected and passwordLength 2 that ended with
\* the error message.
C10_Witness ==
    /\ pwPc = "done"
    /\ ~includeLowercase /\ ~includeUppercase
    /\ ~includeNumbers /\ ~includeSymbols
    /\ passwordLength = 2
    /\ SubSeq(generatedPassword, 1, 6) = <<"E", "r", "r", "o", "r", ":">>

\* ------------------------------------------------ WordChainPasswordGenerator

\* Largest number of custom words loaded.
MaxCustomWords == 1

\* The word counts tried (the slider of the code goes from 1 to 64): one
\* word, and two words with the gap between them.
WordCounts == {1, 2}

\* getRandomCryptoInt(3) in applyRandomCapitalization.
CapitalizationBound == 3

\* getRandomCryptoInt(2) in applyRandomCapitalization.
CaseBound == 2

\* getRandomCryptoInt(10) in generateWordChain.
DigitBound == 10

WordFig == <<"f", "i", "g">>
WordSpeaker == <<"s", "p", "e", "a", "k", "e", "r">>

\* DEFAULT_WORD_LIST, of which the model keeps three entries in their order:
\* "fig" (line 12) and "speaker", which the list holds twice (lines 33, 37).
DEFAULT_WORD_LIST == <<WordFig, WordSpeaker, WordSpeaker>>

\* The words a user can supply: any non-empty strings without whitespace.
\* The model tries a word that starts like an error message, a word that
\* holds separator characters, and a word of the default list.
CustomCandidates ==
    {<<"E", "r", "r", "o", "r", ":">>, <<"a", "-", "b", "_", "c">>, WordFig}

\* The custom word lists tried.
CustomWordLists == UNION {[1..n -> CustomCandidates] : n \in 0..MaxCustomWords}

\* SEPARATORS
SEPARATORS ==
    [hyphen |-> <<"-">>, space |-> <<" ">>, underscore |-> <<"_">>,
     none |-> <<>>]

\* The values of SEPARATOR_OPTIONS.
SeparatorTypes == {"hyphen", "space", "underscore", "none", "random"}

\* Object.values(SEPARATORS).filter(s => s !== 'random')
availableSeparators ==
    <<SEPARATORS.hyphen, SEPARATORS.space, SEPARATORS.underscore,
      SEPARATORS.none>>

\* 'Error: No words available. Please enable default list or provide a
\* valid custom list.'
ErrorNoWords ==
    <<"E", "r", "r", "o", "r", ":", " ", "N", "o", " ", "w", "o", "r", "d",
      "s", " ", "a", "v", "a", "i", "l", "a", "b", "l", "e", ".", " ", "P",
      "l", "e", "a", "s", "e", " ", "e", "n", "a", "b", "l", "e", " ", "d",
      "e", "f", "a", "u", "l", "t", " ", "l", "i", "s", "t", " ", "o", "r",
      " ", "p", "r", "o", "v", "i", "d", "e", " ", "a", " ", "v", "a", "l",
      "i", "d", " ", "c", "u", "s", "t", "o", "m", " ", "l", "i", "s", "t",
      ".">>

\* 'Error:'
ErrorPrefix == <<"E", "r", "r", "o", "r", ":">>

\* s.startsWith(prefix)
StartsWith(s, prefix) ==
    Len(s) >= Len(prefix) /\ SubSeq(s, 1, Len(prefix)) = prefix

\* An undefined element of generatedParts.
UndefinedPart == <<Undefined>>

\* a[idx] for an array of strings, idx being the 0-based index of the code.
ElemAt(a, idx) == IF idx + 1 \in DOMAIN a THEN a[idx + 1] ELSE UndefinedPart

RECURSIVE JoinParts(_)
\* generatedParts.join(''), an undefined element counting as the empty string.
JoinParts(parts) ==
    IF parts = <<>> THEN <<>>
    ELSE (IF Head(parts) = UndefinedPart THEN <<>> ELSE Head(parts))
            \o JoinParts(Tail(parts))

RECURSIVE Dedup(_)
\* Array.from(new Set(s)): the first occurrence of each element, in order.
Dedup(s) ==
    IF s = <<>> THEN <<>>
    ELSE LET r == Dedup(SubSeq(s, 1, Len(s) - 1))
             last == s[Len(s)]
         IN  IF \E i \in DOMAIN r : r[i] = last THEN r ELSE Append(r, last)

\* combinedWords as generateWordChain builds it: the default list if
\* enabled, and the Set only when there are custom words.
combinedWords ==
    LET base == IF useDefaultList THEN DEFAULT_WORD_LIST ELSE <<>>
    IN  IF Len(customWords) > 0 THEN Dedup(base \o customWords) ELSE base

VocabularyIsEmptyNever(words) == FALSE

\* combinedWords.length === 0
VocabularyIsEmpty(words) == Len(words) = 0

\* char.toLowerCase()
ToLowerChar(c) ==
    IF \E i \in DOMAIN CharSetUppercase : CharSetUppercase[i] = c
    THEN CharSetLowercase[CHOOSE i \in DOMAIN CharSetUppercase :
                              CharSetUppercase[i] = c]
    ELSE c

\* char.toUpperCase()
ToUpperChar(c) ==
    IF \E i \in DOMAIN CharSetLowercase : CharSetLowercase[i] = c
    THEN CharSetUppercase[CHOOSE i \in DOMAIN CharSetLowercase :
                              CharSetLowercase[i] = c]
    ELSE c

\* word.toLowerCase()
toLowerCase(word) == [i \in DOMAIN word |-> ToLowerChar(word[i])]

\* word.toUpperCase()
toUpperCase(word) == [i \in DOMAIN word |-> ToUpperChar(word[i])]

\* word.charAt(0).toUpperCase() + word.slice(1).toLowerCase()
TitleCase(word) ==
    [i \in DOMAIN word |->
        IF i = 1 THEN ToUpperChar(word[i]) ELSE ToLowerChar(word[i])]

\* word.split('').map(...).join('') when the draws of the map come out as
\* flips: 0 lowers the character, anything else raises it.
RandomCase(word, flips) ==
    [i \in DOMAIN word |->
        IF flips[i] = 0 THEN ToLowerChar(word[i]) ELSE ToUpperChar(word[i])]

\* applyRandomCapitalization(word): the words it can return, each with the
\* arguments of the getRandomCryptoInt calls made. (combinedWords[wordIndex]
\* is never undefined in generateWordChain; an undefined word is passed
\* through.)
applyRandomCapitalization(word) ==
    IF ~randomCapitalization \/ word = UndefinedPart
    THEN {[word |-> word, draws |-> <<>>]}
    ELSE UNION {
        IF rand = 0
        THEN {[word |-> toLowerCase(word), draws |-> <<CapitalizationBound>>]}
        ELSE IF rand = 1
        THEN {[word |-> toUpperCase(word), draws |-> <<CapitalizationBound>>]}
        ELSE IF rand = 2
        THEN {[word |-> TitleCase(word), draws |-> <<CapitalizationBound>>]}
        ELSE {[word |-> RandomCase(word, flips),
               draws |-> <<CapitalizationBound>>
                            \o [i \in DOMAIN word |-> CaseBound]] :
                 flips \in [DOMAIN word -> getRandomCryptoInt(CaseBound)]}
        : rand \in getRandomCryptoInt(CapitalizationBound)}

\* The pick of one word: wordIndex, the word, its capitalization, the push.
WordOutcomes ==
    UNION {
        {[parts |-> <<c.word>>,
          draws |-> <<Len(combinedWords)>> \o c.draws] :
            c \in applyRandomCapitalization(ElemAt(combinedWords, wordIndex))}
        : wordIndex \in getRandomCryptoInt(Len(combinedWords))}

SeparatorOutcomesDropped == {[parts |-> <<>>, draws |-> <<>>]}

\* currentSeparator and its push.
SeparatorOutcomes ==
    IF separatorType = "random"
    THEN {[parts |-> <<ElemAt(availableSeparators, j)>>,
           draws |-> <<Len(availableSeparators)>>] :
            j \in getRandomCryptoInt(Len(availableSeparators))}
    ELSE {[parts |-> <<SEPARATORS[separatorType]>>, draws |-> <<>>]}

\* The push of getRandomCryptoInt(10), which join('') turns into its digit.
DigitOutcomes ==
    IF includeNumbersBetweenWords
    THEN {[parts |-> <<<<CharAt(CharSetNumbers, n)>>>>,
           draws |-> <<DigitBound>>] : n \in getRandomCryptoInt(DigitBound)}
    ELSE {[parts |-> <<>>, draws |-> <<>>]}

\* The push of CHAR_SETS.symbols[randomIndex].
SymbolOutcomes ==
    IF includeSymbolsBetweenWords
    THEN {[parts |-> <<<<CharAt(CHAR_SETS.symbols, randomIndex)>>>>,
           draws |-> <<Len(CHAR_SETS.symbols)>>] :
            randomIndex \in getRandomCryptoInt(Len(CHAR_SETS.symbols))}
    ELSE {[parts |-> <<>>, draws |-> <<>>]}

NotLastWordOffByOne(i) == i < wordCount

\* i < wordCount - 1
NotLastWord(i) == i < wordCount - 1

\* What follows the word of iteration i: separator, digit, symbol, or nothing.
GapOutcomes(i) ==
    IF NotLastWord(i)
    THEN {[parts |-> s.parts \o d.parts \o y.parts,
           draws |-> s.draws \o d.draws \o y.draws] :
            s \in SeparatorOutcomes, d \in DigitOutcomes, y \in SymbolOutcomes}
    ELSE {[parts |-> <<>>, draws |-> <<>>]}

RECURSIVE ChainFrom(_)
\* The iterations i, i + 1, ... of  for (let i = 0; i < wordCount; i++).
ChainFrom(i) ==
    IF i < wordCount
    THEN {[parts |-> w.parts \o g.parts \o rest.parts,
           draws |-> w.draws \o g.draws \o rest.draws] :
            w \in WordOutcomes, g \in GapOutcomes(i), rest \in ChainFrom(i + 1)}
    ELSE {[parts |-> <<>>, draws |-> <<>>]}

\* 'Copied!', 'Failed to copy.', 'Cannot copy error message.'
CopyStatusCopied == "Copied!"
CopyStatusFailed == "Failed to copy."
CopyStatusCannot == "Cannot copy error message."

\* The settings as useState restores them from localStorage, and the custom
\* words a finished processCustomWordList left.
InitWords ==
    /\ wcPc = "ready"
    /\ wordCount \in WordCounts
    /\ useDefaultList \in BOOLEAN
    /\ customWords \in CustomWordLists
    /\ separatorType \in SeparatorTypes
    /\ randomCapitalization \in BOOLEAN
    /\ includeNumbersBetweenWords \in BOOLEAN
    /\ includeSymbolsBetweenWords \in BOOLEAN
    /\ generatedParts = <<>>
    /\ wcDraws = <<>>
    /\ copyStatus = ""

\* The settings of a first visit, for the specifications that do not
\* generate word chains.
InitWordsDefault ==
    /\ wcPc = "ready"
    /\ wordCount = 4
    /\ useDefaultList = TRUE
    /\ customWords = <<>>
    /\ separatorType = "hyphen"
    /\ randomCapitalization = FALSE
    /\ includeNumbersBetweenWords = FALSE
    /\ includeSymbolsBetweenWords = FALSE
    /\ generatedParts = <<>>
    /\ wcDraws = <<>>
    /\ copyStatus = ""

wcSettings == <<wordCount, useDefaultList, customWords, separatorType,
                randomCapitalization, includeNumbersBetweenWords,
                includeSymbolsBetweenWords>>

pwLocals == <<pwPc, passwordLength, includeLowercase, includeUppercase,
              includeNumbers, includeSymbols, passwordChars, pwDraws>>

\* One click on "Generate Word Chain Password": generateWordChain, with the
\* string it hands to onGenerate stored by handleGeneratePassword, which
\* also clears copyStatus. The loop is its first iteration followed by the
\* remaining ones; with wordCount < 1 it pushes nothing.
generateWordChain ==
    /\ wcPc = "ready"
    /\ IF VocabularyIsEmpty(combinedWords)
       THEN /\ generatedPassword' = ErrorNoWords
            /\ generatedParts' = <<>>
            /\ wcDraws' = <<>>
       ELSE IF wordCount < 1
       THEN /\ generatedPassword' = <<>>
            /\ generatedParts' = <<>>
            /\ wcDraws' = <<>>
       ELSE \E w \in WordOutcomes, g \in GapOutcomes(0), rest \in ChainFrom(1) :
              /\ generatedParts' = w.parts \o g.parts \o rest.parts
              /\ wcDraws' = w.draws \o g.draws \o rest.draws
              /\ generatedPassword' =
                    JoinParts(w.parts \o g.parts \o rest.parts)
    /\ copyStatus' = ""
    /\ wcPc' = "done"
    /\ UNCHANGED <<wcSettings, pwLocals, rngVars, shVars, ldVars>>

\* The test App applies to tell an error message from a credential, in
\* handleCopy and in the disabled attribute of the Copy button.
IsErrorMessage(password) == StartsWith(password, ErrorPrefix)

\* One click on the Copy button, enabled unless generatedPassword is empty
\* or an error message: handleCopy, copyToClipboard succeeding or throwing.
handleCopy ==
    /\ ~(generatedPassword = <<>> \/ IsErrorMessage(generatedPassword))
    /\ IF IsErrorMessage(generatedPassword)
       THEN copyStatus' = CopyStatusCannot
       ELSE copyStatus' \in {CopyStatusCopied, CopyStatusFailed}
    /\ UNCHANGED <<wcPc, wcSettings, generatedParts, wcDraws, pwVars,
                   rngVars, shVars, ldVars>>

\* The setTimeout callback of handleCopy: setCopyStatus('').
CopyStatusTimeout ==
    /\ copyStatus \in {CopyStatusCopied, CopyStatusCannot}
    /\ copyStatus' = ""
    /\ UNCHANGED <<wcPc, wcSettings, generatedParts, wcDraws, pwVars,
                   rngVars, shVars, ldVars>>

\* ------------------------------------------------------ processCustomWordList

\* The number of fetches that can be pending at once in the model.
MaxInFlight == 2

\* 'http://', 'https://'
HttpPrefix == <<"h", "t", "t", "p", ":", "/", "/">>
HttpsPrefix == <<"h", "t", "t", "p", "s", ":", "/", "/">>

\* What the user can leave in the textarea or upload: nothing, blanks, one
\* word, and two URLs.
InputEmpty == <<>>
InputBlank == <<" ">>
InputText == WordFig
InputUrlA == HttpPrefix \o <<"a">>
InputUrlB == HttpsPrefix \o <<"b">>
Inputs == {InputEmpty, InputBlank, InputText, InputUrlA, InputUrlB}

\* response.text() of a successful fetch: one word at the first URL, an
\* empty document at the second.
ResponseText(url) == IF url = InputUrlA THEN WordSpeaker ELSE <<>>

\* wordListError: null and the three messages.
ErrorNone == "null"
ErrorUrlNoWords == "The provided URL did not contain any valid words."
ErrorUrlFailed ==
    "Failed to load words from URL. Please check the URL and CORS policy."
ErrorInputNoWords == "No valid words found in the custom input."

\* customWordListInput.startsWith('http://') || ...startsWith('https://')
IsUrl(input) == StartsWith(input, HttpPrefix) \/ StartsWith(input, HttpsPrefix)

RECURSIVE SplitWhitespace(_)
\* text.split(/\s+/).filter(word => word.length > 0)
SplitWhitespace(text) ==
    IF text = <<>> THEN <<>>
    ELSE IF text[1] = " " THEN SplitWhitespace(Tail(text))
    ELSE LET ends == {k \in 1..Len(text) :
                        /\ \A m \in 1..k : text[m] # " "
                        /\ (k = Len(text) \/ text[k + 1] = " ")}
             k == CHOOSE e \in ends : TRUE
         IN  <<SubSeq(text, 1, k)>>
                \o SplitWhitespace(SubSeq(text, k + 1, Len(text)))

\* customWordListInput.trim().length > 0
TrimIsNonEmpty(input) == \E i \in DOMAIN input : input[i] # " "

\* s without its k-th element.
RemoveAt(s, k) == SubSeq(s, 1, k - 1) \o SubSeq(s, k + 1, Len(s))

\* No input, nothing loading, no run pending.
InitLoadIdle ==
    /\ customWordListInput = InputEmpty
    /\ loadingWords = FALSE
    /\ wordListError = ErrorNone
    /\ inFlight = <<>>

\* A call of processCustomWordList with the input of the current render.
\* For a URL it runs up to await fetch(...) and the run stays pending; for
\* text it runs to its end.
ProcessStarts(input) ==
    IF IsUrl(input)
    THEN /\ Len(inFlight) < MaxInFlight
         /\ loadingWords' = TRUE
         /\ wordListError' = ErrorNone
         /\ inFlight' = Append(inFlight, input)
         /\ UNCHANGED customWords
    ELSE /\ loadingWords' = FALSE
         /\ wordListError' =
                IF SplitWhitespace(input) = <<>> /\ TrimIsNonEmpty(input)
                THEN ErrorInputNoWords ELSE ErrorNone
         /\ customWords' = SplitWhitespace(input)
         /\ UNCHANGED inFlight

\* The effect on customWordListInput, run after the render that changed it.
InputEffect(input) ==
    IF input # InputEmpty
    THEN ProcessStarts(input)
    ELSE /\ customWords' = <<>>
         /\ wordListError' = ErrorNone
         /\ UNCHANGED <<loadingWords, inFlight>>

wcRest == <<wcPc, wordCount, separatorType, randomCapitalization,
            includeNumbersBetweenWords, includeSymbolsBetweenWords,
            generatedParts, wcDraws, copyStatus>>

\* onChange of the textarea: setCustomWordListInput(value), then the effect.
SetCustomWordListInput ==
    /\ \E value \in Inputs \ {customWordListInput} :
        /\ customWordListInput' = value
        /\ InputEffect(value)
    /\ UNCHANGED <<useDefaultList, wcRest, pwVars, rngVars, shVars>>

\* reader.onload of handleFileUpload: the content becomes the input and the
\* default list is switched off; the effect runs if the input changed.
handleFileUpload ==
    /\ \E content \in Inputs :
        /\ customWordListInput' = content
        /\ IF content # customWordListInput
           THEN InputEffect(content)
           ELSE UNCHANGED <<customWords, loadingWords, wordListError, inFlight>>
    /\ useDefaultList' = FALSE
    /\ UNCHANGED <<wcRest, pwVars, rngVars, shVars>>

\* A click on "Process Input", disabled while loadingWords.
ProcessInputClick ==
    /\ ~loadingWords
    /\ ProcessStarts(customWordListInput)
    /\ UNCHANGED <<customWordListInput, useDefaultList, wcRest, pwVars,
                   rngVars, shVars>>

\* The fetch of a pending run resolves with a response that is ok: the run
\* resumes after the awaits and goes on to its end.
FetchSucceeds ==
    /\ \E k \in DOMAIN inFlight :
        LET words == SplitWhitespace(ResponseText(inFlight[k]))
        IN  /\ wordListError' =
                    IF words = <<>> THEN ErrorUrlNoWords ELSE wordListError
            /\ customWords' = words
            /\ loadingWords' = FALSE
            /\ inFlight' = RemoveAt(inFlight, k)
    /\ UNCHANGED <<customWordListInput, useDefaultList, wcRest, pwVars,
                   rngVars, shVars>>

\* The fetch of a pending run rejects, or its response is not ok: the catch
\* block, then the end of the run with words still [].
FetchFails ==
    /\ \E k \in DOMAIN inFlight :
        /\ wordListError' = ErrorUrlFailed
        /\ customWords' = <<>>
        /\ loadingWords' = FALSE
        /\ inFlight' = RemoveAt(inFlight, k)
    /\ UNCHANGED <<customWordListInput, useDefaultList, wcRest, pwVars,
                   rngVars, shVars>>

\* -------------------------------------------------- claims: generateWordChain

\* C11: when the combined vocabulary is empty (default list disabled, no
\* custom words loaded), generation yields the empty-vocabulary failure for
\* every wordCount and whatever the other settings: onGenerate receives the
\* error message, no part of a word chain is produced and getRandomCryptoInt
\* is not called.
C11_EmptyVocabulary ==
    (wcPc = "done" /\ ~useDefaultList /\ customWords = <<>>) =>
        /\ generatedPassword = ErrorNoWords
        /\ generatedParts = <<>>
        /\ wcDraws = <<>>

\* A generation of two words with capitalization on and an empty vocabulary
\* that ended with the error message.
C11_Witness ==
    /\ wcPc = "done"
    /\ ~useDefaultList /\ customWords = <<>>
    /\ wordCount = 2
    /\ randomCapitalization
    /\ separatorType = "random"
    /\ generatedPassword = ErrorNoWords

\* C12 (as claimed): a failure is a tagged result the caller always tells
\* apart from a successful output: the caller classifies what it received as
\* a failure exactly when the generation failed, for every vocabulary of
\* non-empty words.
C12_FailureIffClassifiedAsFailure ==
    wcPc = "done" =>
        (IsErrorMessage(generatedPassword) <=> VocabularyIsEmpty(combinedWords))

RECURSIVE SplitOn(_, _)
\* s.split(c) for a one-character separator c.
SplitOn(s, c) ==
    IF \E i \in DOMAIN s : s[i] = c
    THEN LET i == CHOOSE k \in DOMAIN s :
                    s[k] = c /\ \A m \in 1..(k - 1) : s[m] # c
         IN  <<SubSeq(s, 1, i - 1)>> \o SplitOn(SubSeq(s, i + 1, Len(s)), c)
    ELSE <<s>>

\* s.split(sep): the characters of s for the empty separator.
Split(s, sep) ==
    IF sep = <<>> THEN [i \in DOMAIN s |-> <<s[i]>>] ELSE SplitOn(s, sep[1])

\* C13 (as claimed): for every policy with a fixed (non-random) separator,
\* splitting the generated string on that separator yields exactly wordCount
\* tokens (an injected digit or symbol not counting as a token of its own).
C13_SplitYieldsWordCount ==
    (/\ wcPc = "done"
     /\ ~VocabularyIsEmpty(combinedWords)
     /\ separatorType # "random") =>
        Len(Split(generatedPassword, SEPARATORS[separatorType])) = wordCount

\* The number of parts pushed after the separator of a gap.
InjectedPerGap ==
    (IF includeNumbersBetweenWords THEN 1 ELSE 0)
        + (IF includeSymbolsBetweenWords THEN 1 ELSE 0)

\* The character c occurs in the string s.
Occurs(c, s) == \E i \in DOMAIN s : s[i] = c

\* C13 (amended): for every policy whose fixed separator is the hyphen, the
\* space or the underscore, whose vocabulary has no word holding that
\* separator, and which injects no symbol unless the separator is outside
\* the symbol alphabet, splitting the generated string on the separator
\* yields exactly wordCount tokens: the first word, and then each further
\* word preceded by the digit and symbol injected in the gap before it.
C13_SplitYieldsWordCountAmended ==
    (/\ wcPc = "done"
     /\ ~VocabularyIsEmpty(combinedWords)
     /\ separatorType \in {"hyphen", "space", "underscore"}
     /\ \A k \in DOMAIN combinedWords :
            ~Occurs(SEPARATORS[separatorType][1], combinedWords[k])
     /\ includeSymbolsBetweenWords =>
            ~Occurs(SEPARATORS[separatorType][1], CharSetSymbols)) =>
        LET tokens == Split(generatedPassword, SEPARATORS[separatorType])
            stride == 2 + InjectedPerGap
        IN  /\ Len(tokens) = wordCount
            /\ Len(generatedParts) = (wordCount - 1) * stride + 1
            /\ tokens[1] = generatedParts[1]
            /\ \A i \in 2..wordCount :
                tokens[i] =
                    JoinParts(SubSeq(generatedParts,
                                     (i - 1) * stride - InjectedPerGap + 1,
                                     (i - 1) * stride + 1))

\* A chain of two default words with the hyphen and an injected digit.
C13_Witness ==
    /\ wcPc = "done"
    /\ separatorType = "hyphen"
    /\ useDefaultList /\ customWords = <<>>
    /\ includeNumbersBetweenWords /\ ~includeSymbolsBetweenWords
    /\ generatedParts = <<WordFig, <<"-">>, <<"5">>, WordSpeaker>>
    /\ Split(generatedPassword, <<"-">>) = <<WordFig, <<"5">> \o WordSpeaker>>

\* The part is a word of the vocabulary: as it stands without
\* capitalization, in any casing with it.
IsWordPart(part) ==
    \E k \in DOMAIN combinedWords :
        IF randomCapitalization
        THEN toLowerCase(part) = toLowerCase(combinedWords[k])
        ELSE part = combinedWords[k]

\* The part is the configured separator, or one of the four separators
\* when separatorType is 'random'.
IsSeparatorPart(part) ==
    IF separatorType = "random"
    THEN \E j \in DOMAIN availableSeparators : part = availableSeparators[j]
    ELSE part = SEPARATORS[separatorType]

\* The part is one digit.
IsDigitPart(part) ==
    Len(part) = 1 /\ \E n \in 1..DigitBound : part[1] = CharSetNumbers[n]

\* The part is one character of the symbol alphabet.
IsSymbolPart(part) ==
    Len(part) = 1
        /\ \E j \in DOMAIN CHAR_SETS.symbols : part[1] = CHAR_SETS.symbols[j]

\* C14: a generation with wordCount = k >= 1 emits exactly k words and
\* k - 1 gaps. After each word but the last it appends, in this order, one
\* separator, then one digit if includeNumbersBetweenWords, then one symbol
\* if includeSymbolsBetweenWords; nothing follows the last word and a
\* disabled injection appends nothing.
C14_WordsAndGaps ==
    (wcPc = "done" /\ ~VocabularyIsEmpty(combinedWords)) =>
        LET stride == 2 + InjectedPerGap
            digitAt == IF includeNumbersBetweenWords THEN 2 ELSE 0
            symbolAt == IF includeSymbolsBetweenWords
                        THEN 1 + InjectedPerGap ELSE 0
        IN  /\ wordCount >= 1
            /\ Len(generatedParts) = wordCount + (wordCount - 1) * (stride - 1)
            /\ \A i \in 1..wordCount :
                IsWordPart(generatedParts[(i - 1) * stride + 1])
            /\ \A i \in 1..(wordCount - 1) :
                LET base == (i - 1) * stride + 1
                IN  /\ IsSeparatorPart(generatedParts[base + 1])
                    /\ includeNumbersBetweenWords =>
                        IsDigitPart(generatedParts[base + digitAt])
                    /\ includeSymbolsBetweenWords =>
                        IsSymbolPart(generatedParts[base + symbolAt])

\* A chain of two words whose gap holds a drawn empty separator, a digit
\* and a symbol, in this order.
C14_Witness ==
    /\ wcPc = "done"
    /\ wordCount = 2
    /\ separatorType = "random"
    /\ includeNumbersBetweenWords /\ includeSymbolsBetweenWords
    /\ Len(generatedParts) = 5
    /\ generatedParts[2] = <<>>
    /\ generatedParts[3] = <<"7">>
    /\ generatedParts[4] = <<"@">>
    /\ Len(wcDraws) = 5

\* C15 (as claimed): the capitalization step can produce each of the four
\* transforms; in particular the per-character random-case transform is
\* reachable, and when taken it makes one getRandomCryptoInt(2) draw per
\* character of the word.
C15_RandomCaseReachable ==
    (/\ wcPc = "done"
     /\ randomCapitalization
     /\ ~VocabularyIsEmpty(combinedWords)) =>
        \A k \in DOMAIN combinedWords :
            \E c \in applyRandomCapitalization(combinedWords[k]) :
                c.draws = <<CapitalizationBound>>
                            \o [i \in DOMAIN combinedWords[k] |-> CaseBound]

\* C16 (as claimed): the vocabulary generation draws from holds every word
\* at most once, whether the default list is enabled or not and whether
\* there are custom words or not.
C16_VocabularyHasNoDuplicates ==
    wcPc = "done" => IsDistinct(combinedWords)

\* ------------------------------------------- claims: termination of the draws

\* An iteration of the while loop in which crypto.getRandomValues delivers a
\* word below ceiling.
RngAccept == RngReroll /\ ~Rejected(rngResult', rngMax)

\* C17: for every bound max in [1, 2^W - 1] the threshold ceiling is at
\* least max, so at least one word is accepted; and if the byte source
\* eventually delivers an accepted word, a call getRandomCryptoInt(max) that
\* entered its loop returns. (Each generation makes finitely many such
\* calls, all with the length of a string or an array as bound.)
C17_LoopTerminates ==
    /\ []((rngPc = "loop" /\ rngMax \in 1..MaxUint32) =>
            /\ ceiling(rngMax) >= rngMax
            /\ \E w \in Words : ~Rejected(w, rngMax))
    /\ (rngPc = "loop" /\ rngMax \in 1..MaxUint32) ~> (rngPc = "returned")

\* A call with the largest bound a word can serve that discarded the only
\* rejected word, 2^W - 1, at least once and then returned.
C17_Witness ==
    /\ rngPc = "returned"
    /\ rngMax = MaxUint32
    /\ rngRejected
    /\ rngReturn \in 0..(MaxUint32 - 1)

\* ------------------------------------------- claims: processCustomWordList

\* The words a finished run for this input can have left: those of the text,
\* or for a URL those of its document, or none if the fetch failed.
DerivedWords(input) ==
    IF IsUrl(input)
    THEN {SplitWhitespace(ResponseText(input)), <<>>}
    ELSE {SplitWhitespace(input)}

\* C18 (as claimed): whatever the sequence of input changes and the order in
\* which the fetches complete, loadingWords is true while a run is pending,
\* and once every started run has finished loadingWords is false and
\* customWords are the words derived from the latest customWordListInput (a
\* stale run never overwrites the result of a newer one).
C18_LatestInputWins ==
    /\ inFlight # <<>> => loadingWords
    /\ inFlight = <<>> =>
            /\ ~loadingWords
            /\ customWords \in DerivedWords(customWordListInput)

\* ----------------------------------------------------------- specifications

NextRng == RngCall \/ RngReroll \/ RngReturn

\* getRandomCryptoInt alone: no shuffle, no generation.
InitSpecRng ==
    InitRng /\ InitShuffleIdle /\ InitPasswordDefault /\ InitWordsDefault
        /\ InitLoadIdle

SpecRng == InitSpecRng /\ [][NextRng]_vars

\* getRandomCryptoInt with a byte source that does not withhold the accepted
\* words for ever, and a loop that exits once its condition is false.
FairSpecRng ==
    InitSpecRng /\ [][NextRng]_vars /\ WF_vars(RngReturn) /\ WF_vars(RngAccept)

NextShuffle == ShuffleCall

\* shuffleArray alone, on every array of Arrays.
InitSpecShuffle ==
    InitRng /\ InitShuffle /\ InitPasswordDefault /\ InitWordsDefault
        /\ InitLoadIdle

SpecShuffle == InitSpecShuffle /\ [][NextShuffle]_vars

Next == generatePassword

\* The RandomPasswordGenerator component with any restored settings.
Init ==
    InitRng /\ InitShuffleIdle /\ InitPassword /\ InitWordsDefault
        /\ InitLoadIdle

Spec == Init /\ [][Next]_vars

NextWords == generateWordChain

\* The WordChainPasswordGenerator component with any restored settings and
\* custom words, no password generated yet.
InitSpecWords ==
    /\ InitRng /\ InitShuffleIdle /\ InitWords /\ InitLoadIdle
    /\ pwPc = "ready"
    /\ passwordLength = 16
    /\ includeLowercase = TRUE
    /\ includeUppercase = TRUE
    /\ includeNumbers = TRUE
    /\ includeSymbols = TRUE
    /\ passwordChars = <<>>
    /\ pwDraws = <<>>
    /\ generatedPassword = <<>>

SpecWords == InitSpecWords /\ [][NextWords]_vars

NextCopy == generateWordChain \/ handleCopy \/ CopyStatusTimeout

\* The same component with the Copy button of App.
SpecCopy == InitSpecWords /\ [][NextCopy]_vars

NextLoad ==
    \/ SetCustomWordListInput
    \/ handleFileUpload
    \/ ProcessInputClick
    \/ FetchSucceeds
    \/ FetchFails

\* The custom word list of a first visit: nothing saved, nothing generated.
InitSpecLoad ==
    InitRng /\ InitShuffleIdle /\ InitPasswordDefault /\ InitWordsDefault
        /\ InitLoadIdle

SpecLoad == InitSpecLoad /\ [][NextLoad]_vars

====
